---- MODULE Spec2Model ----
(***************************************************************************)
(* Model of scripts/test.py, the regression-test harness of llhd:          *)
(*   - the line normalisation and the CheckFile directive engine,          *)
(*   - TestCase.launch / TestCase.finish,                                  *)
(*   - the heads/tails sliding-window loop and the summary.                *)
(* Text is a sequence of code points; a line is text without line breaks.  *)
(***************************************************************************)
EXTENDS Integers, Sequences, FiniteSets, TLC

\* ------------------------------------------------------------------ bounds
MaxLineLen == 5
MaxDirs == 2
MaxLines == 3
MaxTests == 3
\* window size of the pipeline; the script sets 16 (test.py:274), scaled down
num_parallel == 2

\* -------------------------------------------------------------- characters
ESC == 27
SEMI == 59
NL == 10

\* alphabet the lines of the normalisation runs are drawn from:
\* ESC, space, '1', ';', '[', 'a'
NormChars == {ESC, 32, 49, SEMI, 91, 97}

RECURSIVE SeqsUpTo(_, _)
SeqsUpTo(S, n) ==
  IF n = 0 THEN {<<>>}
  ELSE LET shorter == SeqsUpTo(S, n - 1)
       IN shorter \cup {Append(s, x) : s \in {t \in shorter : Len(t) = n - 1}, x \in S}

\* str.isspace() for the code points below 256
IsSpace(c) == c \in {9, 10, 11, 12, 13, 28, 29, 30, 31, 32, 133, 160}

\* line.split(";")[0]
split_semicolon(s) ==
  LET cut == {i \in 1..Len(s) : s[i] = SEMI}
  IN IF cut = {} THEN s
     ELSE SubSeq(s, 1, (CHOOSE i \in cut : \A j \in cut : i <= j) - 1)

\* str.strip()
strip(s) ==
  LET keep == {i \in 1..Len(s) : ~IsSpace(s[i])}
  IN IF keep = {} THEN <<>>
     ELSE SubSeq(s, CHOOSE i \in keep : \A j \in keep : i <= j,
                    CHOOSE i \in keep : \A j \in keep : i >= j)

\* first index >= i whose character is outside lo..hi (Len(s)+1 if none):
\* where a greedy character-class star started at i stops
RunEnd(s, i, lo, hi) ==
  CHOOSE j \in i..(Len(s) + 1) :
    /\ \A k \in i..(j - 1) : s[k] \in lo..hi
    /\ (j = Len(s) + 1 \/ s[j] \notin lo..hi)

\* ansi_escape matched at position i: the index just past the match, 0 if
\* the regex does not match there.  The three classes [0-?], [ -/], [@-~]
\* are disjoint, so the greedy match is the only candidate.
ansi_escape_match(s, i) ==
  LET intro == IF s[i] = ESC /\ i + 1 <= Len(s) /\ s[i + 1] \in 64..95 THEN 2
               ELSE IF s[i] \in 128..159 THEN 1
               ELSE 0
  IN IF intro = 0 THEN 0
     ELSE LET p == RunEnd(s, i + intro, 48, 63)
              q == RunEnd(s, p, 32, 47)
          IN IF q <= Len(s) /\ s[q] \in 64..126 THEN q + 1 ELSE 0

\* ansi_escape.sub("", s), scanning from position i
RECURSIVE ansi_escape_sub(_, _)
ansi_escape_sub(s, i) ==
  IF i > Len(s) THEN <<>>
  ELSE LET e == ansi_escape_match(s, i)
       IN IF e # 0 THEN ansi_escape_sub(s, e)
          ELSE <<s[i]>> \o ansi_escape_sub(s, i + 1)

\* the two statements applied to a candidate line before the comparison
Normalize(line) == ansi_escape_sub(strip(split_semicolon(line)), 1)

\* ------------------------------------------------------------- CheckFile
\* variant: the kind is taken as written
dirname_plain(kind) == kind

\* directive[0].replace("CHECK-ERR", "CHECK"), for the kinds of DirKinds
dirname(kind) ==
  CASE kind = "CHECK-ERR" -> "CHECK"
    [] kind = "CHECK-ERR-NEXT" -> "CHECK-NEXT"
    [] OTHER -> kind

\* "CHECK" and the endings of the kinds of DirKinds
KwCheck == <<67, 72, 69, 67, 75>>
KwNext == <<45, 78, 69, 88, 84>>
KwErr == <<45, 69, 82, 82>>
KwFoo == <<45, 70, 79, 79>>

\* the kind as written in the file, as one of the names used for kinds
kind_name(k) ==
  CASE k = KwCheck -> "CHECK"
    [] k = KwCheck \o KwNext -> "CHECK-NEXT"
    [] k = KwCheck \o KwErr -> "CHECK-ERR"
    [] k = KwCheck \o KwFoo -> "CHECK-FOO"
    [] OTHER -> "CHECK?"

\* first index >= i of a character that is not whitespace (Len(s)+1 if none)
SpaceEnd(s, i) ==
  CHOOSE j \in i..(Len(s) + 1) :
    /\ \A k \in i..(j - 1) : IsSpace(s[k])
    /\ (j = Len(s) + 1 \/ ~IsSpace(s[j]))

\* regex_dir.match(line), ^\s*;\s*(CHECK[^:]*):\s+(.+)$ :
\* [ok, kind, expected] with the two groups as written in the line
regex_dir(line) ==
  LET none == [ok |-> FALSE, kind |-> <<>>, expected |-> <<>>]
      semi == SpaceEnd(line, 1)
  IN IF semi > Len(line) \/ line[semi] # SEMI THEN none
     ELSE LET kw == SpaceEnd(line, semi + 1)
          IN IF kw + 4 > Len(line) \/ SubSeq(line, kw, kw + 4) # KwCheck THEN none
             ELSE LET colons == {i \in (kw + 5)..Len(line) : line[i] = 58}
                  IN IF colons = {} THEN none
                     ELSE LET colon == CHOOSE i \in colons : \A j \in colons : i <= j
                              txt == SpaceEnd(line, colon + 1)
                          IN IF txt = colon + 1 THEN none
                             ELSE IF txt <= Len(line)
                               THEN [ok |-> TRUE, kind |-> SubSeq(line, kw, colon - 1),
                                     expected |-> SubSeq(line, txt, Len(line))]
                             \* \s+ gives its last character back to .+
                             ELSE IF txt - (colon + 1) >= 2
                               THEN [ok |-> TRUE, kind |-> SubSeq(line, kw, colon - 1),
                                     expected |-> <<line[Len(line)]>>]
                             ELSE none

\* "<end of file>"
EndOfFile == <<60, 101, 110, 100, 32, 111, 102, 32, 102, 105, 108, 101, 62>>

\* The iterator over self.input is the number of lines already consumed:
\* next(state) yields lines[state + 1] and moves to state + 1.

Raise(msg) == [ok |-> FALSE, state |-> 0, msg |-> msg]
Return(state) == [ok |-> TRUE, state |-> state, msg |-> ""]

\* variant: every CHECK scans the input from its first line
check_scan_restart(lines, state, expected) ==
  LET M == {j \in 1..Len(lines) : Normalize(lines[j]) = expected}
  IN IF M = {} THEN Raise("No matching line found")
     ELSE Return(CHOOSE j \in M : \A i \in M : j <= i)

\* variant: CHECK takes the last matching line instead of the first
check_scan_last(lines, state, expected) ==
  LET M == {j \in (state + 1)..Len(lines) : Normalize(lines[j]) = expected}
  IN IF M = {} THEN Raise("No matching line found")
     ELSE Return(CHOOSE j \in M : \A i \in M : j >= i)

\* variant: the candidate line is compared as it is
RECURSIVE check_scan_raw(_, _, _)
check_scan_raw(lines, state, expected) ==
  IF state >= Len(lines) THEN Raise("No matching line found")
  ELSE IF lines[state + 1] = expected THEN Return(state + 1)
  ELSE check_scan_raw(lines, state + 1, expected)

\* variant: the matching line is not consumed
RECURSIVE check_scan_peek(_, _, _)
check_scan_peek(lines, state, expected) ==
  IF state >= Len(lines) THEN Raise("No matching line found")
  ELSE IF Normalize(lines[state + 1]) = expected THEN Return(state)
  ELSE check_scan_peek(lines, state + 1, expected)

\* the `for line in state` loop of the CHECK branch
RECURSIVE check_scan(_, _, _)
check_scan(lines, state, expected) ==
  IF state >= Len(lines) THEN Raise("No matching line found")
  ELSE IF Normalize(lines[state + 1]) = expected THEN Return(state + 1)
  ELSE check_scan(lines, state + 1, expected)

\* variant: CHECK-NEXT looks for its line anywhere after the cursor
check_next_searching(lines, state, expected) ==
  LET M == {j \in (state + 1)..Len(lines) : Normalize(lines[j]) = expected}
  IN IF M = {} THEN Raise("Next line does not match")
     ELSE Return(CHOOSE j \in M : \A i \in M : j <= i)

\* the CHECK-NEXT branch; StopIteration of next(state) carries no text
check_next(lines, state, expected) ==
  IF state >= Len(lines) THEN Raise("")
  ELSE IF Normalize(lines[state + 1]) = expected THEN Return(state + 1)
  ELSE Raise("Next line does not match")

\* CheckFile.execute_directive on a copy of the iterator
execute_directive(directive, lines, state) ==
  IF dirname(directive.kind) = "CHECK" THEN check_scan(lines, state, directive.expected)
  ELSE IF dirname(directive.kind) = "CHECK-NEXT" THEN check_next(lines, state, directive.expected)
  ELSE Raise("Unknown directive")

\* variant: the reported line is normalised like a candidate line
scanning_from_normalized(lines, state) ==
  IF state < Len(lines) THEN Normalize(lines[state + 1]) ELSE EndOfFile

\* the line reported with a failure: next(copy(self.state)).strip()
scanning_from(lines, state) ==
  IF state < Len(lines) THEN strip(lines[state + 1]) ELSE EndOfFile

\* variant: the iterator the failed directive consumed is kept
execute_step_consuming(d, lines, e) ==
  LET r == execute_directive(d, lines, e.state)
  IN IF r.ok THEN [state |-> r.state, failed |-> e.failed]
     ELSE [state |-> Len(lines),
           failed |-> Append(e.failed,
                             [d |-> d, msg |-> r.msg, line |-> scanning_from(lines, e.state)])]

\* one iteration of `for d in self.dirs` on the engine state
\* e = [state, failed]
execute_step(d, lines, e) ==
  LET r == execute_directive(d, lines, e.state)
  IN IF r.ok THEN [state |-> r.state, failed |-> e.failed]
     ELSE [state |-> e.state,
           failed |-> Append(e.failed,
                             [d |-> d, msg |-> r.msg, line |-> scanning_from(lines, e.state)])]

\* the directive loop of CheckFile.execute from directive i on
RECURSIVE execute_from(_, _, _, _)
execute_from(ds, lines, i, e) ==
  IF i > Len(ds) THEN e
  ELSE execute_from(ds, lines, i + 1, execute_step(ds[i], lines, e))

\* CheckFile.execute: the verdict and the failures behind the message
execute(ds, lines) ==
  LET e == execute_from(ds, lines, 1, [state |-> 0, failed |-> <<>>])
  IN [passed |-> Len(e.failed) = 0, failed |-> e.failed]

\* -------------------------------------------------------------- TestCase
\* str.splitlines() boundaries
IsLineBreak(c) == c \in {10, 11, 12, 13, 28, 29, 30, 133, 8232, 8233}

\* text.splitlines(): the line that began at start, scanned up to i
RECURSIVE splitlines(_, _, _)
splitlines(text, start, i) ==
  IF i > Len(text)
    THEN IF start <= Len(text) THEN <<SubSeq(text, start, Len(text))>> ELSE <<>>
  ELSE IF IsLineBreak(text[i])
    THEN LET n == IF text[i] = 13 /\ i + 1 <= Len(text) /\ text[i + 1] = NL
                  THEN i + 2 ELSE i + 1
         IN <<SubSeq(text, start, i - 1)>> \o splitlines(text, n, n)
  ELSE splitlines(text, start, i + 1)

\* the directives of the lines, test.py:46-49
RECURSIVE collect_dirs(_, _)
collect_dirs(lines, i) ==
  IF i > Len(lines) THEN <<>>
  ELSE LET m == regex_dir(lines[i])
       IN (IF m.ok THEN <<[kind |-> kind_name(m.kind), expected |-> m.expected]>>
           ELSE <<>>) \o collect_dirs(lines, i + 1)

\* CheckFile.__init__
CheckFile_init(checks_text, input_text) ==
  [dirs |-> collect_dirs(splitlines(checks_text, 1, 1), 1),
   input |-> splitlines(input_text, 1, 1)]

\* shlex.split(text): the posix reader with whitespace_split, from position
\* i on.  st: "sp" between words, "a" in a word, "dq" / "sq" in quotes,
\* "esc" after a backslash (est: the state to go back to); tok: the word so
\* far; q: the word had quotes; out: the words read.
\* Result: [ok, words]; ok = FALSE stands for the ValueError.
RECURSIVE shlex_read(_, _, _, _, _, _, _)
shlex_read(text, i, st, est, tok, q, out) ==
  IF i > Len(text)
    THEN IF st \in {"dq", "sq", "esc"} THEN [ok |-> FALSE, words |-> <<>>]
         ELSE IF st = "a" /\ (tok # <<>> \/ q) THEN [ok |-> TRUE, words |-> Append(out, tok)]
         ELSE [ok |-> TRUE, words |-> out]
  ELSE LET c == text[i]
           ws == c \in {32, 9, 13, 10}
       IN CASE st = "sp" ->
                 IF ws THEN shlex_read(text, i + 1, "sp", est, <<>>, FALSE, out)
                 ELSE IF c = 92 THEN shlex_read(text, i + 1, "esc", "a", tok, q, out)
                 ELSE IF c = 34 THEN shlex_read(text, i + 1, "dq", est, tok, q, out)
                 ELSE IF c = 39 THEN shlex_read(text, i + 1, "sq", est, tok, q, out)
                 ELSE shlex_read(text, i + 1, "a", est, <<c>>, q, out)
            [] st = "a" ->
                 IF ws THEN shlex_read(text, i + 1, "sp", est, <<>>, FALSE,
                                       IF tok # <<>> \/ q THEN Append(out, tok) ELSE out)
                 ELSE IF c = 92 THEN shlex_read(text, i + 1, "esc", "a", tok, q, out)
                 ELSE IF c = 34 THEN shlex_read(text, i + 1, "dq", est, tok, q, out)
                 ELSE IF c = 39 THEN shlex_read(text, i + 1, "sq", est, tok, q, out)
                 ELSE shlex_read(text, i + 1, "a", est, Append(tok, c), q, out)
            [] st = "dq" ->
                 IF c = 34 THEN shlex_read(text, i + 1, "a", est, tok, TRUE, out)
                 ELSE IF c = 92 THEN shlex_read(text, i + 1, "esc", "dq", tok, TRUE, out)
                 ELSE shlex_read(text, i + 1, "dq", est, Append(tok, c), TRUE, out)
            [] st = "sq" ->
                 IF c = 39 THEN shlex_read(text, i + 1, "a", est, tok, TRUE, out)
                 ELSE shlex_read(text, i + 1, "sq", est, Append(tok, c), TRUE, out)
            [] st = "esc" ->
                 IF est = "dq" /\ c # 92 /\ c # 34
                   THEN shlex_read(text, i + 1, est, est, tok \o <<92, c>>, q, out)
                 ELSE shlex_read(text, i + 1, est, est, Append(tok, c), q, out)

\* shlex.split(self.run)
shlex_split(text) == shlex_read(text, 1, "sp", "a", <<>>, FALSE, <<>>)

\* the state of a TestCase after __init__, for the markers found in its file
TestCase(ignore, should_fail, dirs) ==
  [ignore |-> ignore, should_fail |-> should_fail, dirs |-> dirs,
   timeout |-> FALSE, failed |-> FALSE, info |-> <<>>,
   stdout |-> <<>>, stderr |-> <<>>,
   proc |-> "none", returncode |-> 0, cmd |-> <<>>]

\* "llhd-"
ToolPrefix == <<108, 108, 104, 100, 45>>
\* "%s"
Placeholder == <<37, 115>>
\* the install prefix handed to the script, here "p/"
prefix == <<112, 47>>
\* directory of the test files, "/d", and the name of a test file in it, "t"
TestDir == <<47, 100>>
TestName == <<116>>

startswith(x, pre) == Len(x) >= Len(pre) /\ SubSeq(x, 1, Len(pre)) = pre

\* self.dir / x
joinpath(dir, x) == IF startswith(x, <<47>>) THEN x ELSE dir \o <<47>> \o x

\* a file name against a pattern with '*' wildcards
RECURSIVE glob_match(_, _, _, _)
glob_match(pat, i, name, j) ==
  IF i > Len(pat) THEN j > Len(name)
  ELSE IF pat[i] = 42
    THEN glob_match(pat, i + 1, name, j)
         \/ (j <= Len(name) /\ glob_match(pat, i, name, j + 1))
  ELSE j <= Len(name) /\ pat[i] = name[j] /\ glob_match(pat, i + 1, name, j + 1)

\* self.dir.glob(x): the matching entries in the order the directory
\* enumerates them (ls), from entry i on
RECURSIVE dir_glob(_, _, _, _)
dir_glob(dir, x, ls, i) ==
  IF i > Len(ls) THEN <<>>
  ELSE (IF glob_match(x, 1, ls[i], 1) THEN <<joinpath(dir, ls[i])>> ELSE <<>>)
       \o dir_glob(dir, x, ls, i + 1)

\* (self.dir / x).exists()
path_exists(dir, x, ls) ==
  \E i \in 1..Len(ls) : joinpath(dir, x) = joinpath(dir, ls[i])

\* the loop over self.cmd at test.py:203: the arguments from word i on
RECURSIVE resolve_args(_, _, _, _)
resolve_args(dir, words, ls, i) ==
  IF i > Len(words) THEN [cmd |-> <<>>, info |-> <<>>]
  ELSE LET x == words[i]
           rest == resolve_args(dir, words, ls, i + 1)
       IN IF \E k \in 1..Len(x) : x[k] = 42
            THEN [cmd |-> dir_glob(dir, x, ls, 1) \o rest.cmd,
                  info |-> <<"Arg: glob pattern">> \o rest.info]
          ELSE IF path_exists(dir, x, ls)
            THEN [cmd |-> <<joinpath(dir, x)>> \o rest.cmd,
                  info |-> <<"Arg: path">> \o rest.info]
          ELSE [cmd |-> <<x>> \o rest.cmd,
                info |-> <<"Arg: plain argument">> \o rest.info]

\* "Process the run command" of TestCase.__init__ for the words of the RUN
\* line; path: the test file; ls: the entries of its directory as enumerated
resolve(words, path, dir, ls) ==
  LET w1 == IF startswith(words[1], ToolPrefix)
              THEN [words EXCEPT ![1] = prefix \o @] ELSE words
      w2 == [i \in 1..Len(w1) |-> IF w1[i] = Placeholder THEN path ELSE w1[i]]
  IN resolve_args(dir, w2, ls, 1)

\* TestCase.__init__ for a test file f = [ignore, should_fail, dirs, run].
\* ok = FALSE: the constructor raised (ValueError of shlex.split, or
\* IndexError of self.cmd[0] when the RUN line has no word)
TestCase_init(f, ls) ==
  LET sp == shlex_split(f.run)
      t == TestCase(f.ignore, f.should_fail, f.dirs)
  IN IF ~sp.ok \/ sp.words = <<>> THEN [ok |-> FALSE, t |-> t]
     ELSE LET r == resolve(sp.words, joinpath(TestDir, TestName), TestDir, ls)
          IN [ok |-> TRUE, t |-> [t EXCEPT !.cmd = r.cmd, !.info = r.info]]

\* variant: the exception of Popen leaves no trace in info
launch_silent(t, spawned) ==
  IF t.ignore THEN t
  ELSE IF spawned THEN [t EXCEPT !.info = Append(@, "Command"), !.proc = "running"]
  ELSE [t EXCEPT !.info = Append(@, "Command"), !.failed = TRUE]

\* variant: IGNORE is not looked at before the process is spawned
launch_unconditional(t, spawned) ==
  IF spawned THEN [t EXCEPT !.info = Append(@, "Command"), !.proc = "running"]
  ELSE [t EXCEPT !.info = @ \o <<"Command", "Exception">>, !.failed = TRUE]

\* TestCase.launch; spawned: whether Popen returned a process
launch(t, spawned) ==
  IF t.ignore THEN t
  ELSE IF spawned THEN [t EXCEPT !.info = Append(@, "Command"), !.proc = "running"]
  ELSE [t EXCEPT !.info = @ \o <<"Command", "Exception">>, !.failed = TRUE]

\* variant: the checks see the standard output only
check_input_stdout(out, err) == out

\* the text handed to CheckFile: self.stdout + self.stderr
check_input(out, err) == out \o err

\* variant: a timeout is judged against the FAIL marker
on_timeout_expected(t, out, err) ==
  [t EXCEPT !.proc = "killed", !.stdout = out, !.stderr = err,
            !.timeout = TRUE, !.failed = ~t.should_fail,
            !.info = Append(@, "Timeout")]

\* the except branch of finish: communicate(timeout=10) expired
on_timeout(t, out, err) ==
  [t EXCEPT !.proc = "killed", !.stdout = out, !.stderr = err,
            !.timeout = TRUE, !.failed = TRUE,
            !.info = Append(@, "Timeout")]

\* TestCase.finish.  The process of t is still running (the wait expires)
\* or has exited with rc; out, err: what communicate() read.
\* Result: the test afterwards and the CheckFile runs made.
finish(t, rc, out, err) ==
  IF t.ignore \/ t.failed THEN [t |-> t, checks |-> <<>>]
  ELSE IF t.proc = "running" THEN [t |-> on_timeout(t, out, err), checks |-> <<>>]
  ELSE LET c == [t EXCEPT !.proc = "collected", !.stdout = out, !.stderr = err,
                          !.returncode = rc]
           raw == rc # 0
       IN IF raw # t.should_fail
            THEN [t |-> [c EXCEPT !.failed = TRUE, !.info = Append(@, "Failed/Should Fail")],
                  checks |-> <<>>]
          ELSE LET text == check_input(out, err)
                   r == execute(t.dirs, splitlines(text, 1, 1))
               IN [t |-> [c EXCEPT !.failed = ~r.passed,
                                   !.info = IF r.passed THEN @
                                            ELSE Append(@, "File checks failed")],
                   checks |-> <<[input |-> text, passed |-> r.passed]>>]

\* variant: the first two tests are collected in the other order
tail_swapped(it, n) ==
  IF it <= num_parallel THEN 0
  ELSE IF it - num_parallel = 1 /\ n >= 2 THEN 2
  ELSE IF it - num_parallel = 2 THEN 1
  ELSE it - num_parallel

\* variant: heads stops one test early
head_short(it, n) == IF it < n THEN it ELSE 0

\* heads[it - 1] of a list of n tests: the index of the test, 0 for None
head(it, n) == IF it <= n THEN it ELSE 0
\* tails[it - 1]
tail(it, n) == IF it <= num_parallel THEN 0 ELSE it - num_parallel

\* variant: a single failure does not make the run fail
exit_status_lenient(f) == IF Len(f) > 1 THEN 1 ELSE 0

\* the argument of sys.exit: `1 if failed else 0`
exit_status(f) == IF Len(f) # 0 THEN 1 ELSE 0

\* the passed count of the summary line
passed_count(n, f, ig) == n - Len(f) - Len(ig)

\* ------------------------------------------------------------------ state
VARIABLES
  files,        \* the test files found, in sorted order: [ignore, should_fail, dirs, run]
  listing,      \* the entries of the test directory, in the order it enumerates them
  calls,        \* history: the launch and finish calls of the loop, in order
  tests,        \* the TestCase objects, in the order of the list
  it,           \* the iteration of the zip(heads, tails) loop, from 1
  pc,           \* "collect": before the test list is built; "launch", "finish":
                \* the half of the iteration to run; "summary"; "exit";
                \* "crashed": ended by an exception nothing caught
  ignored,      \* indices of the tests appended to `ignored`
  failed,       \* indices of the tests appended to `failed`
  report,       \* the result lines written, in order
  passed,       \* the passed count of the summary line
  exit_code,    \* argument of sys.exit, -1 before
  cf_calls,     \* history: the CheckFile runs made by finish
  norm_in,      \* normalisation runs: the line drawn
  norm_out,     \* ... the line after norm_steps normalisations
  norm_steps,
  checks,       \* the text of the test file given to CheckFile
  input,        \* the text of the output given to CheckFile
  cf_dirs,      \* CheckFile.dirs
  cf_input,     \* CheckFile.input
  cf_state,     \* CheckFile.state
  cf_failed,    \* CheckFile.failed
  cf_pc,        \* position of execute: index of the next directive, 0 after the return
  cf_passed     \* the verdict execute returned

vars == <<files, listing, calls,
          tests, it, pc, ignored, failed, report, passed, exit_code, cf_calls,
          norm_in, norm_out, norm_steps, checks, input,
          cf_dirs, cf_input, cf_state, cf_failed, cf_pc, cf_passed>>

run_vars == <<files, listing, calls,
              tests, it, pc, ignored, failed, report, passed, exit_code, cf_calls>>

norm_vars == <<norm_in, norm_out, norm_steps>>
cf_vars == <<checks, input, cf_dirs, cf_input, cf_state, cf_failed, cf_pc, cf_passed>>

RunIdle ==
  /\ files = <<>> /\ listing = <<>> /\ calls = <<>>
  /\ tests = <<>> /\ it = 0 /\ pc = "idle" /\ ignored = <<>> /\ failed = <<>>
  /\ report = <<>> /\ passed = 0 /\ exit_code = -1 /\ cf_calls = <<>>
NormIdle == norm_in = <<>> /\ norm_out = <<>> /\ norm_steps = 0
CfIdle ==
  /\ checks = <<>> /\ input = <<>>
  /\ cf_dirs = <<>> /\ cf_input = <<>> /\ cf_state = 0
  /\ cf_failed = <<>> /\ cf_pc = 0 /\ cf_passed = TRUE

\* -------------------------------------------------- normalisation runs
MaxNormSteps == 2

InitNorm ==
  /\ norm_in \in SeqsUpTo(NormChars, MaxLineLen)
  /\ norm_out = norm_in
  /\ norm_steps = 0
  /\ CfIdle
  /\ RunIdle

NormalizeLine ==
  /\ norm_steps < MaxNormSteps
  /\ norm_out' = Normalize(norm_out)
  /\ norm_steps' = norm_steps + 1
  /\ UNCHANGED <<norm_in, cf_vars, run_vars>>

NextNorm == NormalizeLine

SpecNorm == InitNorm /\ [][NextNorm]_vars

\* ------------------------------------------------------ CheckFile runs
DirKinds == {"CHECK", "CHECK-NEXT", "CHECK-ERR", "CHECK-FOO"}
\* "a", "b"
Expected == {<<97>>, <<98>>}
\* "a", "b", " a;b", "c"
Lines == {<<97>>, <<98>>, <<32, 97, SEMI, 98>>, <<99>>}
Directives == [kind : DirKinds, expected : Expected]

InitCheck ==
  /\ checks = <<>> /\ input = <<>>
  /\ cf_dirs \in SeqsUpTo(Directives, MaxDirs)
  /\ cf_input \in SeqsUpTo(Lines, MaxLines)
  /\ cf_state = 0
  /\ cf_failed = <<>>
  /\ cf_pc = 1
  /\ cf_passed = FALSE
  /\ NormIdle
  /\ RunIdle

\* one iteration of the loop at test.py:59
ExecuteDirective ==
  /\ cf_pc >= 1 /\ cf_pc <= Len(cf_dirs)
  /\ LET e == execute_step(cf_dirs[cf_pc], cf_input, [state |-> cf_state, failed |-> cf_failed])
     IN /\ cf_state' = e.state
        /\ cf_failed' = e.failed
  /\ cf_pc' = cf_pc + 1
  /\ UNCHANGED <<checks, input, cf_dirs, cf_input, cf_passed, norm_vars, run_vars>>

\* the return of execute, test.py:75
ExecuteReturn ==
  /\ cf_pc = Len(cf_dirs) + 1
  /\ cf_passed' = (Len(cf_failed) = 0)
  /\ cf_pc' = 0
  /\ UNCHANGED <<checks, input, cf_dirs, cf_input, cf_state, cf_failed, norm_vars, run_vars>>

NextCheck == ExecuteDirective \/ ExecuteReturn

SpecCheck == InitCheck /\ [][NextCheck]_vars

\* -------------------------------------------------- CheckFile from texts
\* a line "<lead>; <kind>:<gap><text>" of a test file
CheckLine(lead, kind, gap, text) ==
  lead \o <<SEMI, 32>> \o kind \o <<58>> \o gap \o text

\* texts after the colon: "a", "a ", "a ;c", "b"
CheckTexts == {<<97>>, <<97, 32>>, <<97, 32, SEMI, 99>>, <<98>>}

CheckLines ==
  {CheckLine(lead, kind, gap, text) :
     lead \in {<<>>, <<32>>}, kind \in {KwCheck, KwCheck \o KwNext},
     gap \in {<<>>, <<32>>, <<32, 32>>}, text \in CheckTexts}

\* test files of one or two lines
CheckFiles ==
  {l \o <<NL>> : l \in CheckLines}
    \cup {l \o <<NL>> \o m \o <<NL>> : l \in CheckLines, m \in CheckLines}

\* "a\n", "b\na\n", " a ;c\n", "a \nb"
InputTexts ==
  {<<97, NL>>, <<98, NL, 97, NL>>, <<32, 97, 32, SEMI, 99, NL>>, <<97, 32, NL, 98>>}

InitFile ==
  /\ checks \in CheckFiles
  /\ input \in InputTexts
  /\ cf_dirs = <<>>
  /\ cf_input = <<>>
  /\ cf_state = 0
  /\ cf_failed = <<>>
  /\ cf_pc = -1
  /\ cf_passed = FALSE
  /\ NormIdle
  /\ RunIdle

\* CheckFile(checks, input) and the first two lines of execute, test.py:55-56
CheckFileNew ==
  /\ cf_pc = -1
  /\ LET cf == CheckFile_init(checks, input)
     IN /\ cf_dirs' = cf.dirs
        /\ cf_input' = cf.input
  /\ cf_state' = 0
  /\ cf_failed' = <<>>
  /\ cf_pc' = 1
  /\ UNCHANGED <<checks, input, cf_passed, norm_vars, run_vars>>

NextFile == CheckFileNew \/ ExecuteDirective \/ ExecuteReturn

SpecFile == InitFile /\ [][NextFile]_vars

\* ------------------------------------------------------ the test run
\* "a\n", "b\n"
OutA == <<97, NL>>
OutB == <<98, NL>>
\* what a process leaves on stdout and stderr
Outputs == {<<OutA, OutB>>, <<OutA, <<>>>>}
\* exit codes of a process
ReturnCodes == {0, 2}
\* ; CHECK: a   ; CHECK-NEXT: b
DirsAB == <<[kind |-> "CHECK", expected |-> <<97>>],
            [kind |-> "CHECK-NEXT", expected |-> <<98>>]>>
\* no RUN line: "llhd-check %s"
RunDefault == <<108, 108, 104, 100, 45, 99, 104, 101, 99, 107, 32, 37, 115>>
\* ; RUN: llhd-check "%s   (the quote is not closed)
RunUnclosed == <<108, 108, 104, 100, 45, 99, 104, 101, 99, 107, 32, 34, 37, 115>>
\* the test files: one with IGNORE, a plain one, one with FAIL, and a plain
\* one whose RUN line has an unclosed quote
TestFiles == {[ignore |-> TRUE, should_fail |-> FALSE, dirs |-> DirsAB, run |-> RunDefault],
              [ignore |-> FALSE, should_fail |-> FALSE, dirs |-> DirsAB, run |-> RunDefault],
              [ignore |-> FALSE, should_fail |-> TRUE, dirs |-> DirsAB, run |-> RunDefault],
              [ignore |-> FALSE, should_fail |-> FALSE, dirs |-> DirsAB, run |-> RunUnclosed]}

Init ==
  /\ files \in SeqsUpTo(TestFiles, MaxTests)
  /\ listing = <<TestName>>
  /\ calls = <<>>
  /\ tests = <<>>
  /\ it = 0
  /\ pc = "collect"
  /\ ignored = <<>>
  /\ failed = <<>>
  /\ report = <<>>
  /\ passed = 0
  /\ exit_code = -1
  /\ cf_calls = <<>>
  /\ NormIdle
  /\ CfIdle

\* "Collect the tests": the list comprehension of TestCase(...) and the
\* set-up of the loop; an exception of a constructor ends the script
Collect ==
  /\ pc = "collect"
  /\ LET made == [i \in 1..Len(files) |-> TestCase_init(files[i], listing)]
     IN IF \A i \in 1..Len(files) : made[i].ok
          THEN /\ tests' = [i \in 1..Len(files) |-> made[i].t]
               /\ it' = 1
               /\ pc' = "launch"
               /\ UNCHANGED exit_code
        ELSE /\ pc' = "crashed"
             /\ exit_code' = 1
             /\ UNCHANGED <<tests, it>>
  /\ UNCHANGED <<files, listing, calls, ignored, failed, report, passed, cf_calls,
                 norm_vars, cf_vars>>

\* first half of an iteration: `if head: head.launch()`
LaunchHead ==
  /\ pc = "launch"
  /\ it <= Len(tests) + num_parallel
  /\ LET h == head(it, Len(tests))
     IN IF h = 0 THEN UNCHANGED <<tests, calls>>
        ELSE \E spawned \in BOOLEAN :
               /\ tests[h].ignore => spawned
               /\ tests' = [tests EXCEPT ![h] = launch(@, spawned)]
               /\ calls' = Append(calls, [op |-> "launch", test |-> h])
  /\ pc' = "finish"
  /\ UNCHANGED <<files, listing, it, ignored, failed, report, passed, exit_code, cf_calls,
                 norm_vars, cf_vars>>

\* second half: `if tail:` finish the test and write its result line
FinishTail ==
  /\ pc = "finish"
  /\ LET i == tail(it, Len(tests))
     IN IF i = 0
          THEN UNCHANGED <<tests, calls, ignored, failed, report, cf_calls>>
        ELSE \E rc \in ReturnCodes, o \in Outputs :
               \* finish reads neither of an ignored or unlaunched test,
               \* nor the exit code of a process it has to kill
               /\ (tests[i].ignore \/ tests[i].failed) =>
                     (rc = 0 /\ o = <<OutA, OutB>>)
               /\ tests[i].proc = "running" => rc = 0
               /\ LET f == finish(tests[i], rc, o[1], o[2])
                  IN /\ tests' = [tests EXCEPT ![i] = f.t]
                     /\ calls' = Append(calls, [op |-> "finish", test |-> i])
                     /\ cf_calls' = cf_calls \o
                          [j \in 1..Len(f.checks) |->
                             [test |-> i, input |-> f.checks[j].input,
                              passed |-> f.checks[j].passed]]
                     /\ IF f.t.ignore
                          THEN /\ ignored' = Append(ignored, i)
                               /\ report' = Append(report,
                                    [test |-> i, timeout |-> FALSE, result |-> "ignored"])
                               /\ UNCHANGED failed
                        ELSE IF f.t.failed
                          THEN /\ failed' = Append(failed, i)
                               /\ report' = Append(report,
                                    [test |-> i, timeout |-> f.t.timeout, result |-> "FAILED"])
                               /\ UNCHANGED ignored
                        ELSE /\ report' = Append(report,
                                    [test |-> i, timeout |-> f.t.timeout, result |-> "passed"])
                             /\ UNCHANGED <<ignored, failed>>
  /\ it' = it + 1
  /\ pc' = IF it = Len(tests) + num_parallel THEN "summary" ELSE "launch"
  /\ UNCHANGED <<files, listing, passed, exit_code, norm_vars, cf_vars>>

\* a child process ends by itself
ProcExit(i) ==
  /\ pc \in {"launch", "finish"}
  /\ tests[i].proc = "running"
  /\ tests' = [tests EXCEPT ![i].proc = "exited"]
  /\ UNCHANGED <<files, listing, calls, it, pc, ignored, failed, report, passed,
                 exit_code, cf_calls, norm_vars, cf_vars>>

\* the summary line and sys.exit
Summary ==
  /\ pc = "summary"
  /\ passed' = passed_count(Len(tests), failed, ignored)
  /\ exit_code' = exit_status(failed)
  /\ pc' = "exit"
  /\ UNCHANGED <<files, listing, calls, tests, it, ignored, failed, report, cf_calls,
                 norm_vars, cf_vars>>

Next ==
  \/ Collect
  \/ LaunchHead
  \/ FinishTail
  \/ \E i \in 1..Len(tests) : ProcExit(i)
  \/ Summary

Spec == Init /\ [][Next]_vars

\* -------------------------------------------------- command resolution
\* the words after the tool of a RUN line: %s, o*, o1, -v, *
RunTokens == {Placeholder, <<111, 42>>, <<111, 49>>, <<45, 118>>, <<42>>}

\* RUN lines "llhd-check <token>" and "llhd-check <token> <token>"
RunTemplates ==
  {SubSeq(RunDefault, 1, 10) \o <<32>> \o x : x \in RunTokens}
    \cup {SubSeq(RunDefault, 1, 10) \o <<32>> \o x \o <<32>> \o y :
            x \in RunTokens, y \in RunTokens}

\* the other entries a test directory may hold: o1, o2
OtherNames == {<<111, 49>>, <<111, 50>>}

\* the orders in which a directory holding the test file and some of the
\* other entries can enumerate them
Listings ==
  {ls \in SeqsUpTo(OtherNames \cup {TestName}, Cardinality(OtherNames) + 1) :
     /\ \E i \in 1..Len(ls) : ls[i] = TestName
     /\ \A i, j \in 1..Len(ls) : ls[i] = ls[j] => i = j}

InitCmd ==
  /\ files \in {<<[ignore |-> FALSE, should_fail |-> FALSE, dirs |-> <<>>, run |-> r]>> :
                  r \in RunTemplates}
  /\ listing \in Listings
  /\ calls = <<>>
  /\ tests = <<>>
  /\ it = 0
  /\ pc = "collect"
  /\ ignored = <<>>
  /\ failed = <<>>
  /\ report = <<>>
  /\ passed = 0
  /\ exit_code = -1
  /\ cf_calls = <<>>
  /\ NormIdle
  /\ CfIdle

SpecCmd == InitCmd /\ [][Next]_vars

\* test files without CHECK lines: one with IGNORE, a plain one, one with FAIL
FilesNoChecks ==
  {[ignore |-> TRUE, should_fail |-> FALSE, dirs |-> <<>>, run |-> RunDefault],
   [ignore |-> FALSE, should_fail |-> FALSE, dirs |-> <<>>, run |-> RunDefault],
   [ignore |-> FALSE, should_fail |-> TRUE, dirs |-> <<>>, run |-> RunDefault]}

InitFair ==
  /\ files \in SeqsUpTo(FilesNoChecks, MaxTests)
  /\ listing = <<TestName>>
  /\ calls = <<>>
  /\ tests = <<>>
  /\ it = 0
  /\ pc = "collect"
  /\ ignored = <<>>
  /\ failed = <<>>
  /\ report = <<>>
  /\ passed = 0
  /\ exit_code = -1
  /\ cf_calls = <<>>
  /\ NormIdle
  /\ CfIdle

\* the run when the script runs on: no half of an iteration is postponed
\* for ever, and finish returns because communicate() returns at the exit
\* of the process or at the timeout
FairSpec ==
  /\ InitFair /\ [][Next]_vars
  /\ WF_vars(LaunchHead) /\ WF_vars(FinishTail)

\* ---------------------------------------------------------------- claims
Min(S) == CHOOSE x \in S : \A y \in S : x <= y

\* a step of the directive loop on the directive at cf_pc
DirStep == cf_pc >= 1 /\ cf_pc <= Len(cf_dirs) /\ cf_pc' = cf_pc + 1
\* ... that recorded a failure
DirFailed == Len(cf_failed') = Len(cf_failed) + 1
\* ... that recorded none
DirPassed == cf_failed' = cf_failed

CheckA == [kind |-> "CHECK", expected |-> <<97>>]

\* C3: a directive that fails leaves the cursor where it was and the loop
\* goes on to the next directive; [CHECK "A", CHECK "A"] on ["A"]: the
\* first directive passes and consumes the line, the second fails.
C3_FailureKeepsCursor ==
  /\ [][(cf_pc >= 1 /\ cf_pc <= Len(cf_dirs) /\ cf_pc' # cf_pc) =>
          /\ cf_pc' = cf_pc + 1
          /\ DirFailed \/ DirPassed
          /\ cf_dirs[cf_pc].kind = "CHECK-FOO" => DirFailed
          /\ DirFailed => cf_state' = cf_state]_vars
  /\ []((cf_dirs = <<CheckA, CheckA>> /\ cf_input = <<(<<97>>)>>) =>
          /\ cf_pc = 2 => (cf_failed = <<>> /\ cf_state = 1)
          /\ cf_pc = 3 => (Len(cf_failed) = 1 /\ cf_state = 1)
          /\ cf_pc = 0 => ~cf_passed)

\* C3 witness: a failed directive after a consumed line, seen on the example
C3_Witness ==
  /\ cf_dirs = <<CheckA, CheckA>> /\ cf_input = <<(<<97>>)>>
  /\ cf_pc = 3 /\ Len(cf_failed) = 1 /\ cf_state = 1

\* lines at or after the cursor whose normal form is the expected text
MatchesFrom(c, expected) ==
  {j \in (c + 1)..Len(cf_input) : Normalize(cf_input[j]) = expected}

\* C4: a CHECK directive at cursor c succeeds iff some line at or after c
\* normalizes to the expected text; the cursor then stands just past the
\* first such line; otherwise the directive fails.
C4_CheckFirstMatch ==
  [][(DirStep /\ cf_dirs[cf_pc].kind = "CHECK") =>
       LET M == MatchesFrom(cf_state, cf_dirs[cf_pc].expected)
       IN /\ DirPassed <=> M # {}
          /\ DirFailed <=> M = {}
          /\ M # {} => cf_state' = Min(M)]_vars

\* C4 witness: a CHECK that skipped a line and matched a later one
C4_Witness ==
  /\ cf_pc = 2 /\ cf_dirs[1].kind = "CHECK" /\ cf_failed = <<>>
  /\ cf_state = 2 /\ Len(cf_input) = 3
  /\ cf_input[2] = <<32, 97, SEMI, 98>>

\* lines with x inserted at the cursor c
InsertAt(lines, c, x) == SubSeq(lines, 1, c) \o <<x>> \o SubSeq(lines, c + 1, Len(lines))

\* C5: a CHECK-NEXT directive fails iff the line at the cursor is absent or
\* does not normalize to the expected text; on success the cursor moves by
\* one; a passing CHECK-NEXT fails once a line with another normal form is
\* inserted at the cursor.
C5_CheckNextNoSearch ==
  [][(DirStep /\ cf_dirs[cf_pc].kind = "CHECK-NEXT") =>
       LET d == cf_dirs[cf_pc]
           miss == cf_state >= Len(cf_input)
                   \/ Normalize(cf_input[cf_state + 1]) # d.expected
       IN /\ DirFailed <=> miss
          /\ DirPassed <=> ~miss
          /\ ~miss => cf_state' = cf_state + 1
          /\ miss => cf_state' = cf_state
          /\ ~miss => \A x \in Lines :
                Normalize(x) # d.expected =>
                  ~execute_directive(d, InsertAt(cf_input, cf_state, x), cf_state).ok]_vars

\* C5 witness: a CHECK-NEXT that failed although its text follows later
C5_Witness ==
  /\ cf_pc = 2 /\ cf_dirs[1].kind = "CHECK-NEXT" /\ Len(cf_failed) = 1
  /\ cf_state = 0 /\ Len(cf_input) = 2
  /\ Normalize(cf_input[1]) # cf_dirs[1].expected
  /\ Normalize(cf_input[2]) = cf_dirs[1].expected

CheckOnly == \A i \in 1..Len(cf_dirs) : cf_dirs[i].kind = "CHECK"

\* line positions, one per directive, each carrying the directive's text
Positions ==
  {p \in [1..Len(cf_dirs) -> 1..Len(cf_input)] :
     \A i \in 1..Len(cf_dirs) : Normalize(cf_input[p[i]]) = cf_dirs[i].expected}

\* C6 as stated: a CHECK-only list passes iff the expected texts appear in
\* directive order at non-decreasing line positions.
C6_NonDecreasingPositions ==
  (cf_pc = 0 /\ CheckOnly) =>
    (cf_passed <=> \E p \in Positions :
                     \A i, j \in 1..Len(cf_dirs) : i < j => p[i] <= p[j])

\* C6 amended: a CHECK-only list passes iff the expected texts appear in
\* directive order at strictly increasing line positions.
C6_IncreasingPositions ==
  (cf_pc = 0 /\ CheckOnly) =>
    (cf_passed <=> \E p \in Positions :
                     \A i, j \in 1..Len(cf_dirs) : i < j => p[i] < p[j])

\* C6 witness: a CHECK-only list of two directives that passed
C6_Witness ==
  /\ cf_pc = 0 /\ CheckOnly /\ Len(cf_dirs) = 2 /\ cf_passed
  /\ cf_dirs[1] # cf_dirs[2]

\* C7: the normalisation is idempotent: a normalised line is left as it is
\* by a second normalisation.
C7_NormalizeIdempotent ==
  norm_steps >= 1 => Normalize(norm_out) = norm_out

\* tests whose process was spawned by launch and not yet collected by finish
InFlight == {i \in 1..Len(tests) : tests[i].proc \in {"running", "exited"}}

\* C1: at every point of the loop at most num_parallel tests are spawned
\* and not yet collected.
C1_AtMostPInFlight == Cardinality(InFlight) <= num_parallel

Increasing(q) == \A i, j \in 1..Len(q) : i < j => q[i] < q[j]

\* C2: the result lines are written for tests[0], tests[1], ... in this
\* order whatever the order in which the processes end or time out, every
\* test has its line at the end, and `failed` and `ignored` are in list order.
C2_ReportedInListOrder ==
  /\ \A j \in 1..Len(report) : report[j].test = j
  /\ Increasing(failed) /\ Increasing(ignored)
  /\ \A j \in 1..Len(failed) : failed[j] <= Len(report)
  /\ \A j \in 1..Len(ignored) : ignored[j] <= Len(report)
  /\ pc \in {"summary", "exit"} => Len(report) = Len(tests)

\* C2 witness: test 3 ended before test 2, which had to be killed, and the
\* lines of tests 1 and 2 are written
C2_Witness ==
  /\ Len(tests) = 3 /\ Len(report) = 2
  /\ tests[2].timeout /\ tests[3].proc = "exited"
  /\ report[2].test = 2 /\ failed = <<2>>

CallsOf(i) == {c \in 1..Len(cf_calls) : cf_calls[c].test = i}

\* C8: a collected test (not ignored, launched, no timeout): when
\* (returncode # 0) differs from should_fail it is failed and CheckFile was
\* not run for it; otherwise CheckFile ran once, on stdout + stderr, and the
\* test failed iff CheckFile did not pass.
C8_ExitCodeThenChecks ==
  \A i \in 1..Len(tests) :
    tests[i].proc = "collected" =>
      IF (tests[i].returncode # 0) # tests[i].should_fail
        THEN tests[i].failed /\ CallsOf(i) = {}
      ELSE /\ Cardinality(CallsOf(i)) = 1
           /\ \A c \in CallsOf(i) :
                /\ cf_calls[c].input = tests[i].stdout \o tests[i].stderr
                /\ tests[i].failed = ~cf_calls[c].passed
                /\ cf_calls[c].passed =
                     (splitlines(tests[i].stdout \o tests[i].stderr, 1, 1)
                        = <<(<<97>>), (<<98>>)>>)

\* C8 witness: a FAIL test that exited with code 2 passed its checks, next
\* to a test whose exit code was not the expected one
C8_Witness ==
  /\ Len(tests) >= 2
  /\ tests[1].proc = "collected" /\ tests[1].should_fail
  /\ tests[1].returncode = 2 /\ ~tests[1].failed /\ CallsOf(1) # {}
  /\ tests[2].proc = "collected" /\ ~tests[2].should_fail
  /\ tests[2].returncode = 2 /\ tests[2].failed /\ CallsOf(2) = {}

\* C9: a test that timed out is failed whatever its FAIL marker and its
\* directives, CheckFile is not run for it, only its own process is
\* killed, and the other tests are left as they are and collected later.
C9_TimeoutFailsOnlyItself ==
  /\ [](\A i \in 1..Len(tests) :
          /\ tests[i].timeout => (tests[i].failed /\ CallsOf(i) = {}
                                  /\ tests[i].proc = "killed")
          /\ tests[i].proc = "killed" => tests[i].timeout
          /\ pc \in {"summary", "exit"} => tests[i].proc \in {"none", "collected", "killed"})
  /\ [][\A i \in 1..Len(tests) :
          (~tests[i].timeout /\ tests'[i].timeout) =>
             \A j \in 1..Len(tests) : j # i => tests'[j] = tests[j]]_vars

\* C9 witness: test 1 with FAIL timed out; test 2, in flight at that time,
\* was collected afterwards and passed
C9_Witness ==
  /\ Len(tests) >= 2
  /\ tests[1].timeout /\ tests[1].should_fail /\ tests[1].failed
  /\ tests[2].proc = "collected" /\ ~tests[2].failed

InSeq(x, q) == \E j \in 1..Len(q) : q[j] = x

\* C10: a test with IGNORE never has a process and never a CheckFile run;
\* its line says ignored; after the run it is in `ignored`, not in `failed`,
\* and not in the passed count.
C10_IgnoredNeverRuns ==
  \A i \in 1..Len(tests) :
    tests[i].ignore =>
      /\ tests[i].proc = "none"
      /\ CallsOf(i) = {}
      /\ ~InSeq(i, failed)
      /\ i <= Len(report) => (report[i].result = "ignored" /\ InSeq(i, ignored))
      /\ pc = "exit" =>
           /\ InSeq(i, ignored)
           /\ passed = Cardinality({j \in 1..Len(tests) :
                                      ~tests[j].ignore /\ ~InSeq(j, failed)})

\* C10 witness: a finished run with an ignored test between a failed and a
\* passed one
C10_Witness ==
  /\ pc = "exit" /\ Len(tests) = 3
  /\ tests[2].ignore /\ ignored = <<2>> /\ failed = <<1>> /\ passed = 1

\* test i passed: launched, collected without timeout, the exit code as
\* expected and every directive matched
TestPassed(i) ==
  /\ ~tests[i].ignore
  /\ tests[i].proc = "collected"
  /\ (tests[i].returncode # 0) = tests[i].should_fail
  /\ \E c \in CallsOf(i) : cf_calls[c].passed

\* C11: at sys.exit the exit code is 0 iff every test that is not ignored
\* passed, and 1 otherwise; passed + failed + ignored = N and every test is
\* counted in exactly one of the three.
C11_ExitCodeAndCounts ==
  pc = "exit" =>
    LET N == 1..Len(tests)
    IN /\ exit_code \in {0, 1}
       /\ exit_code = 0 <=> \A i \in N : ~tests[i].ignore => TestPassed(i)
       /\ passed = Cardinality({i \in N : TestPassed(i)})
       /\ Len(failed) = Cardinality({i \in N : ~tests[i].ignore /\ ~TestPassed(i)})
       /\ Len(ignored) = Cardinality({i \in N : tests[i].ignore})
       /\ passed + Len(failed) + Len(ignored) = Len(tests)
       /\ \A i \in N : InSeq(i, failed) <=> (~tests[i].ignore /\ ~TestPassed(i))
       /\ \A i \in N : InSeq(i, ignored) <=> tests[i].ignore

\* C11 witness: a run of three tests with exactly one failure ends with 1
C11_Witness ==
  /\ pc = "exit" /\ Len(tests) = 3 /\ exit_code = 1
  /\ Len(failed) = 1 /\ Len(ignored) = 1 /\ passed = 1

\* C12: a test file whose RUN line has malformed quoting is one failed test:
\* the run is not ended by it and every test gets its result line.
C12_MalformedRunIsLocal ==
  /\ pc # "crashed"
  /\ pc = "exit" =>
       /\ Len(report) = Len(files)
       /\ \A i \in 1..Len(files) : ~shlex_split(files[i].run).ok => InSeq(i, failed)

CallCount(op, i) ==
  Cardinality({c \in 1..Len(calls) : calls[c] = [op |-> op, test |-> i]})

\* Popen raised for test i
LaunchFailed(i) == InSeq("Exception", tests[i].info)

\* C13: a test whose process cannot be spawned is failed, with the exception
\* in its info, and has its result line at its own position; whatever mix of
\* launch failures, timeouts, exit codes and check results occurs, at the
\* end of the loop every test was launched once and collected once.
C13_LaunchFailureIsLocal ==
  /\ \A i \in 1..Len(tests) :
       /\ LaunchFailed(i) =>
            /\ tests[i].failed /\ tests[i].proc = "none" /\ ~tests[i].timeout
            /\ i <= Len(report) =>
                 report[i] = [test |-> i, timeout |-> FALSE, result |-> "FAILED"]
       /\ (~tests[i].ignore /\ tests[i].failed /\ tests[i].proc = "none") => LaunchFailed(i)
  /\ pc \in {"summary", "exit"} =>
       /\ Len(report) = Len(tests)
       /\ \A i \in 1..Len(tests) :
            /\ CallCount("launch", i) = 1 /\ CallCount("finish", i) = 1
            /\ ~tests[i].ignore =>
                 (LaunchFailed(i) \/ tests[i].proc \in {"collected", "killed"})

\* C13 witness: a launch failure, then a timeout, then a test that passed
C13_Witness ==
  /\ pc = "exit" /\ Len(tests) = 3
  /\ LaunchFailed(1) /\ tests[2].timeout
  /\ tests[3].proc = "collected" /\ ~tests[3].failed
  /\ failed = <<1, 2>>

\* C19: every test is passed to launch once and to finish once, launch
\* before finish; the loop, once entered, comes to its end, after exactly
\* N + P iterations and with no process left uncollected (also for N < P
\* and N = 0).
C19_LoopLaunchesFinishesTerminates ==
  /\ [](/\ \A i \in 1..Len(tests) :
             /\ CallCount("launch", i) <= 1 /\ CallCount("finish", i) <= 1
             /\ \A c \in 1..Len(calls) :
                  calls[c] = [op |-> "finish", test |-> i] =>
                    \E b \in 1..(c - 1) : calls[b] = [op |-> "launch", test |-> i]
        /\ pc = "summary" =>
             /\ it = Len(tests) + num_parallel + 1
             /\ InFlight = {}
             /\ Len(calls) = 2 * Len(tests)
             /\ \A i \in 1..Len(tests) :
                  CallCount("launch", i) = 1 /\ CallCount("finish", i) = 1
        /\ pc \in {"launch", "finish"} => it <= Len(tests) + num_parallel)
  /\ (pc = "launch" ~> pc = "summary")

\* C19 witness: the loop over a single test has ended
C19_Witness ==
  /\ pc = "summary" /\ Len(tests) = 1
  /\ it = num_parallel + 2
  /\ calls = <<[op |-> "launch", test |-> 1], [op |-> "finish", test |-> 1]>>

\* the directive list with every CHECK-ERR written as CHECK
AsCheck(ds) ==
  [i \in 1..Len(ds) |->
     IF ds[i].kind = "CHECK-ERR" THEN [ds[i] EXCEPT !.kind = "CHECK"] ELSE ds[i]]

\* number of directives executed so far
Executed == IF cf_pc = 0 THEN Len(cf_dirs) ELSE cf_pc - 1

\* C15: CHECK-ERR is treated as CHECK: after every directive the cursor, the
\* number of failures (hence the failing positions) and in the end the
\* verdict are those of the list with CHECK written for every CHECK-ERR.
C15_CheckErrIsCheck ==
  LET e == execute_from(SubSeq(AsCheck(cf_dirs), 1, Executed), cf_input, 1,
                        [state |-> 0, failed |-> <<>>])
  IN /\ cf_state = e.state
     /\ Len(cf_failed) = Len(e.failed)
     /\ \A f \in 1..Len(cf_failed) :
          /\ cf_failed[f].line = e.failed[f].line
          /\ cf_failed[f].msg = e.failed[f].msg
          /\ cf_failed[f].d.expected = e.failed[f].d.expected
     /\ cf_pc = 0 => cf_passed = (Len(e.failed) = 0)

\* C15 witness: a CHECK-ERR that skipped a line to find its text
C15_Witness ==
  /\ cf_pc = 0 /\ cf_passed
  /\ cf_dirs = <<[kind |-> "CHECK-ERR", expected |-> <<98>>]>>
  /\ cf_input = <<(<<97>>), (<<98>>)>> /\ cf_state = 2

\* C16: every failing directive adds one entry, in directive order, with
\* its kind, its expected text and the stripped line at the unadvanced
\* cursor (or "<end of file>"); the verdict is pass iff there is no entry;
\* an empty directive list passes.
C16_OneFailurePerDirective ==
  /\ [][(cf_pc >= 1 /\ cf_pc <= Len(cf_dirs) /\ cf_pc' # cf_pc) =>
          \/ cf_failed' = cf_failed
          \/ /\ Len(cf_failed') = Len(cf_failed) + 1
             /\ SubSeq(cf_failed', 1, Len(cf_failed)) = cf_failed
             /\ cf_failed'[Len(cf_failed')].d = cf_dirs[cf_pc]
             /\ cf_failed'[Len(cf_failed')].line =
                  IF cf_state < Len(cf_input)
                    THEN strip(cf_input[cf_state + 1]) ELSE EndOfFile]_vars
  /\ [](cf_pc = 0 => cf_passed = (cf_failed = <<>>))
  /\ []((cf_pc = 0 /\ cf_dirs = <<>>) => cf_passed)
  /\ [](Len(cf_failed) <= Executed)

\* C16 witness: two failures that report the same stripped line " a;b"
C16_Witness ==
  /\ cf_pc = 0 /\ ~cf_passed /\ Len(cf_failed) = 2
  /\ cf_input = <<(<<32, 97, SEMI, 98>>)>>
  /\ cf_failed[1].line = <<97, SEMI, 98>> /\ cf_failed[1].d.kind = "CHECK-NEXT"
  /\ cf_failed[2].line = <<97, SEMI, 98>> /\ cf_failed[2].d.kind = "CHECK-FOO"

\* C18: the cursor stays within 0..len(lines) and never moves back; a
\* directive that passes consumes a line after every line consumed before,
\* so no line satisfies two directives.
C18_CursorMonotone ==
  /\ [](cf_state \in 0..Len(cf_input))
  /\ [][/\ cf_state' >= cf_state
        /\ (DirStep /\ DirPassed) =>
             /\ cf_state' > cf_state
             /\ Normalize(cf_input[cf_state']) = cf_dirs[cf_pc].expected]_vars

\* C18 witness: two directives passed, the second on the third line
C18_Witness ==
  /\ cf_pc = 3 /\ cf_failed = <<>> /\ cf_state = 3 /\ Len(cf_input) = 3
  /\ cf_dirs[1].expected = cf_dirs[2].expected

\* exhaustive search: directives i.. can be given lines of their own, in
\* order, among the lines j..
RECURSIVE Embeds(_, _)
Embeds(i, j) ==
  \/ i > Len(cf_dirs)
  \/ \E k \in j..Len(cf_input) :
       /\ Normalize(cf_input[k]) = cf_dirs[i].expected
       /\ Embeds(i + 1, k + 1)

\* C20: for a CHECK-only list the verdict of the first-match engine is the
\* verdict of an exhaustive search for lines i1 < i2 < ... < ik carrying
\* the expected texts.
C20_GreedyIsComplete ==
  (cf_pc = 0 /\ CheckOnly) => (cf_passed <=> Embeds(1, 1))

\* C20 witness: the first text occurs again after the second one
C20_Witness ==
  /\ cf_pc = 0 /\ cf_passed /\ CheckOnly
  /\ Len(cf_dirs) = 2
  /\ cf_input = <<cf_dirs[1].expected, cf_dirs[2].expected, cf_dirs[1].expected>>
  /\ cf_dirs[1].expected # cf_dirs[2].expected

\* the directives with the expected text normalised as an output line is
NormalizedDirs ==
  [i \in 1..Len(cf_dirs) |->
     [kind |-> cf_dirs[i].kind, expected |-> Normalize(cf_dirs[i].expected)]]

\* C14: the expected text of a directive is normalised the same way as the
\* output line it is compared with, so the verdict of a check file is the
\* verdict reached with every expected text cut at the comment marker,
\* trimmed and freed of escape sequences.
C14_BothSidesNormalized ==
  (cf_pc = 0 /\ checks # <<>>) =>
     cf_passed = execute(NormalizedDirs, cf_input).passed

\* a < b as Python orders strings
StrLess(a, b) ==
  \E k \in 1..(Min({Len(a), Len(b)}) + 1) :
    /\ \A j \in 1..(k - 1) : a[j] = b[j]
    /\ IF k > Len(a) THEN k <= Len(b)
       ELSE k <= Len(b) /\ a[k] < b[k]

\* the entries of the test directory in sorted order
SortedListing ==
  CHOOSE ls \in [1..Len(listing) -> {listing[i] : i \in 1..Len(listing)}] :
    \A i, j \in 1..Len(listing) : i < j => StrLess(ls[i], ls[j])

\* C17: a token with a wildcard is replaced at its position by its glob
\* matches in sorted order, the other tokens keeping their order, so the
\* argument vector of every test is the one resolved from the sorted
\* directory, whatever the order in which the directory enumerates its
\* entries.
C17_GlobSplicedSorted ==
  (pc \notin {"idle", "collect", "crashed"}) =>
     \A i \in 1..Len(tests) :
       tests[i].cmd = TestCase_init(files[i], SortedListing).t.cmd

====
